---- MODULE Spec2Model ----
(***************************************************************************)
(* Model of the multi-provider search orchestrator of xynehq/websearch     *)
(* (src/src/multi_provider.rs): MultiProviderSearch with its four          *)
(* strategies, the timed single-provider invocation and the per-provider   *)
(* statistics map.                                                         *)
(*                                                                         *)
(* A search call suspends only at the await of a provider call, so one     *)
(* call is a chain of steps: Search runs the strategy up to the first      *)
(* provider call; ProviderReturnsOk / ProviderReturnsErr / DeadlineExpires *)
(* resolve the call in flight, apply the stats update and run the strategy *)
(* up to the next provider call or to the return.                          *)
(*                                                                         *)
(* Provider names are byte strings, modelled as sequences of byte values   *)
(* and ordered as Rust orders String.  Indices are 0-based as in the       *)
(* source; providers[i + 1] is the provider at registration index i.       *)
(* avg_response_time_ms is an f64 in the source; the model keeps it as an  *)
(* exact reduced fraction num/den (rounding is not modelled).              *)
(* Counters are u64 in the source; the model stops after MaxCalls calls   *)
(* or MaxInvocations provider calls, far from overflow.                    *)
(***************************************************************************)
EXTENDS Integers, Sequences, FiniteSets, TLC

\* ---------------------------------------------------------------- bounds
MaxProviders == 3
MaxCalls == 4
MaxInvocations == 4
\* search calls followed where termination is checked
MaxLiveCalls == 1
\* calls of web_search followed
MaxWebCalls == 3

\* ------------------------------------------------------- program constants
DefaultTimeoutMs == 10000
DefaultMaxConcurrent == 3
ReqwestTimeoutMs == 15000
DefaultRequestTimeoutMs == 15000

\* ------------------------------------------------------------ input sets
\* provider names: "ab" < "b" bytewise although "ab" is the longer one
ProviderNames == {<<1, 2>>, <<2>>}
\* (timeout_per_provider in ms, max_concurrent) of the configurations explored
ConfigChoices == {<<50, 1>>, <<DefaultTimeoutMs, DefaultMaxConcurrent>>}
Strategies == {"Failover", "LoadBalance", "Aggregate", "RaceFirst"}

None == [some |-> FALSE, val |-> <<>>]
Some(v) == [some |-> TRUE, val |-> v]

\* A SearchResult is modelled by its provider field and its url (standing for
\* the rest of the record, which the orchestrator never reads).

RECURSIVE SeqsUpTo(_, _)
SeqsUpTo(S, n) ==
    IF n = 0 THEN {<<>>}
    ELSE LET shorter == SeqsUpTo(S, n - 1)
         IN shorter \cup {Append(s, x) : s \in {t \in shorter : Len(t) = n - 1}, x \in S}

Item(p, u) == [provider |-> p, url |-> u]

\* what a provider call that succeeds returns, with the time it took (ms)
OkOutcomes ==
    {[results |-> <<>>, elapsed |-> 10],
     [results |-> <<Item(Some(<<2>>), 1)>>, elapsed |-> 30],
     [results |-> <<Item(Some(<<2>>), 2), Item(Some(<<1, 2>>), 1)>>, elapsed |-> 10],
     [results |-> <<Item(Some(<<2>>), 1), Item(None, 1)>>, elapsed |-> 70]}

\* options.max_results
MaxResultsChoices == {None, Some(0), Some(2)}
\* options.timeout, in ms
TimeoutChoices == {None, Some(20), Some(100)}
\* the requests explored: the cap is read by search_aggregate only and the
\* timeout by no code of the orchestrator, so they are varied one at a time
Requests ==
    {r \in [max_results : MaxResultsChoices, timeout : TimeoutChoices] :
        r.max_results.some # r.timeout.some}

\* SearchOptions of web_search: query and id_list as byte strings, and the
\* name of options.provider
WebQueries == {<<>>, <<1>>}
WebIdLists == {None, Some(<<7>>)}
WebOptions == [query : WebQueries, id_list : WebIdLists, provider : ProviderNames]

\* the values of the command line's --strategy option
StrategyCli == {"failover", "load-balance", "aggregate", "race"}
\* the requests handle_multi_search builds: max_results from the command
\* line, the other fields from SearchOptionsMulti::default()
CliRequests ==
    {[max_results |-> m, timeout |-> Some(DefaultRequestTimeoutMs)] :
        m \in {x \in MaxResultsChoices : x.some}}

\* ---------------------------------------------------------------- errors
OtherError(msg) == [kind |-> "Other", code |-> 0, msg |-> msg]
HttpError(status) == [kind |-> "HttpError", code |-> status, msg |-> "Server error"]
TimeoutError(ms) == [kind |-> "Timeout", code |-> ms, msg |-> ""]
NoError == [kind |-> "none", code |-> 0, msg |-> ""]

NoProvidersConfigured == OtherError("No providers configured")
AllProvidersFailed == OtherError("All providers failed")
AllProvidersInRaceFailed == OtherError("All providers in race failed")

\* errors a provider adapter can return
ProviderErrors == {HttpError(500), TimeoutError(ReqwestTimeoutMs)}

InvalidInput(msg) == [kind |-> "InvalidInput", code |-> 0, msg |-> msg]
\* web_search's own validation error
QueryOrIdListRequired == InvalidInput("A search query or ID list (for Arxiv) is required")
\* an adapter's validation error
QueryCannotBeEmpty == InvalidInput("Query cannot be empty")
\* SearchError::ProviderError(detailed_error): the message names the provider
\* and embeds the provider's error
ProviderError(name, e) ==
    [kind |-> "ProviderError", code |-> 0, msg |-> "Search with provider failed",
     provider |-> name, cause |-> e]

Ok(list) == [ok |-> TRUE, results |-> list, err |-> NoError]
Err(e) == [ok |-> FALSE, results |-> <<>>, err |-> e]
Pending == [ok |-> FALSE, results |-> <<>>, err |-> [kind |-> "pending", code |-> 0, msg |-> ""]]

VARIABLES
    strategy,             \* config.strategy
    providers,            \* config.providers, as the sequence of their names
    timeout_per_provider, \* config.timeout_per_provider, in ms
    max_concurrent,       \* config.max_concurrent
    provider_stats,       \* HashMap<String, ProviderStats>
    pc,                   \* "idle", or "awaiting" a provider call
    options,              \* the request of the call in progress
    cur,                  \* index of the provider whose call is in flight
    last_error,           \* search_failover's local
    merged_results,       \* search_aggregate's local
    successful_providers, \* search_aggregate's local
    ret,                  \* value returned by the last search call
    log,                  \* history: invocations of the current call
    calls,                \* history: search calls started
    invocations,          \* history: invocations per registration index
    stats_before,         \* history: provider_stats when the current call began
    ok_elapsed,           \* history: per name, count and summed elapsed ms of
                          \* the invocations that succeeded
    call_elapsed,         \* history: ms the invocations of the current call took
    web_pc,               \* web_search: "idle", or "awaiting" options.provider
    web_options,          \* web_search: its argument
    web_ret,              \* web_search: the value it returned last
    web_outcome,          \* history: what options.provider.search returned in
                          \* this call of web_search, Pending if it was not called
    web_calls,            \* history: calls of web_search
    cli_strategy          \* the --strategy option, "none" for a library caller

vars == <<strategy, providers, timeout_per_provider, max_concurrent,
          provider_stats, pc, options, cur, last_error, merged_results,
          successful_providers, ret, log, calls, invocations, stats_before,
          ok_elapsed, call_elapsed, web_pc, web_options, web_ret, web_outcome, web_calls,
          cli_strategy>>

web_vars == <<web_pc, web_options, web_ret, web_outcome, web_calls>>

config == <<strategy, providers, timeout_per_provider, max_concurrent>>


\* ------------------------------------------------------- pure operations
Range(s) == {s[i] : i \in 1..Len(s)}

RECURSIVE SumSet(_, _)
SumSet(f, S) ==
    IF S = {} THEN 0
    ELSE LET x == CHOOSE y \in S : TRUE IN f[x] + SumSet(f, S \ {x})

\* <[u8]>::cmp: lexicographic, a proper prefix is Less; -1 Less, 0 Equal, 1 Greater
RECURSIVE CmpBytes(_, _)
CmpBytes(a, b) ==
    IF a = <<>> /\ b = <<>> THEN 0
    ELSE IF a = <<>> THEN -1
    ELSE IF b = <<>> THEN 1
    ELSE IF Head(a) < Head(b) THEN -1
    ELSE IF Head(a) > Head(b) THEN 1
    ELSE CmpBytes(Tail(a), Tail(b))

\* Option<String>::cmp: None is Less than every Some
CmpProvider(a, b) ==
    IF ~a.some /\ ~b.some THEN 0
    ELSE IF ~a.some THEN -1
    ELSE IF ~b.some THEN 1
    ELSE CmpBytes(a.val, b.val)

\* the comparator closure of merged_results.sort_by
AggregateCompare(a, b) == CmpProvider(a.provider, b.provider)

\* InsertStable placing x before the elements Equal to it
RECURSIVE InsertBeforeEqual(_, _)
InsertBeforeEqual(sorted, x) ==
    IF sorted = <<>> THEN <<x>>
    ELSE IF AggregateCompare(Head(sorted), x) # -1 THEN <<x>> \o sorted
    ELSE <<Head(sorted)>> \o InsertBeforeEqual(Tail(sorted), x)

\* slice::sort_by is a stable sort: x goes before the first element Greater than it
RECURSIVE InsertStable(_, _)
InsertStable(sorted, x) ==
    IF sorted = <<>> THEN <<x>>
    ELSE IF AggregateCompare(Head(sorted), x) = 1 THEN <<x>> \o sorted
    ELSE <<Head(sorted)>> \o InsertStable(Tail(sorted), x)

RECURSIVE SortByProvider(_)
SortByProvider(list) ==
    IF list = <<>> THEN <<>>
    ELSE InsertStable(SortByProvider(SubSeq(list, 1, Len(list) - 1)), list[Len(list)])

\* Vec::truncate
Truncate(list, n) == IF n >= Len(list) THEN list ELSE SubSeq(list, 1, n)

RECURSIVE Gcd(_, _)
Gcd(a, b) == IF b = 0 THEN a ELSE Gcd(b, a % b)

Reduce(num, den) ==
    LET g == Gcd(num, den) IN [num |-> num \div g, den |-> den \div g]

\* ProviderStats::default()
ProviderStatsDefault ==
    [total_requests |-> 0, successful_requests |-> 0, failed_requests |-> 0,
     avg_response_time_ms |-> [num |-> 0, den |-> 1]]

\* NewProviderStats leaving out the provider registered last
NewProviderStatsDropsLast(provs) ==
    [n \in Range(SubSeq(provs, 1, Len(provs) - 1)) |-> ProviderStatsDefault]

\* MultiProviderSearch::new: one entry per distinct provider name
NewProviderStats(provs) == [n \in Range(provs) |-> ProviderStatsDefault]

\* RecordRequest counting the request twice
RecordRequestTwice(stats, name) ==
    IF name \in DOMAIN stats
    THEN [stats EXCEPT ![name].total_requests = @ + 2]
    ELSE stats

\* RecordRequest counting the request for every provider
RecordRequestAll(stats, name) ==
    [n \in DOMAIN stats |-> [stats[n] EXCEPT !.total_requests = @ + 1]]

\* RecordRequest leaving the request uncounted
RecordRequestSkips(stats, name) == stats

\* "Update request count"
RecordRequest(stats, name) ==
    IF name \in DOMAIN stats
    THEN [stats EXCEPT ![name].total_requests = @ + 1]
    ELSE stats

\* RollingAverage as the midpoint of the old average and the new time
RollingAverageMidpoint(avg, n, new_time) ==
    IF n = 1 THEN Reduce(new_time, 1)
    ELSE Reduce(avg.num + new_time * avg.den, avg.den * 2)

\* the rolling average: (avg * (n - 1) + new_time) / n, n the new success count
RollingAverage(avg, n, new_time) ==
    Reduce(avg.num * (n - 1) + new_time * avg.den, avg.den * n)

\* RecordOutcome with the timeout case left uncounted
RecordOutcomeDropsTimeout(stats, name, timed, elapsed) ==
    IF name \in DOMAIN stats
    THEN IF ~timed.timedout /\ timed.inner.ok
         THEN [stats EXCEPT
                 ![name].successful_requests = @ + 1,
                 ![name].avg_response_time_ms =
                     RollingAverage(@, stats[name].successful_requests + 1, elapsed)]
         ELSE IF timed.timedout THEN stats
         ELSE [stats EXCEPT ![name].failed_requests = @ + 1]
    ELSE stats

\* RecordOutcome folding the time of a failed call into the average
RecordOutcomeAveragesFailures(stats, name, timed, elapsed) ==
    IF name \in DOMAIN stats
    THEN IF ~timed.timedout /\ timed.inner.ok
         THEN [stats EXCEPT
                 ![name].successful_requests = @ + 1,
                 ![name].avg_response_time_ms =
                     RollingAverage(@, stats[name].successful_requests + 1, elapsed)]
         ELSE [stats EXCEPT
                 ![name].failed_requests = @ + 1,
                 ![name].avg_response_time_ms =
                     RollingAverage(@, stats[name].total_requests, elapsed)]
    ELSE stats

\* RecordOutcome applying the late success of a call abandoned at the deadline
RecordOutcomeCountsLateSuccess(stats, name, timed, elapsed) ==
    IF name \in DOMAIN stats
    THEN IF ~timed.timedout /\ timed.inner.ok
         THEN [stats EXCEPT
                 ![name].successful_requests = @ + 1,
                 ![name].avg_response_time_ms =
                     RollingAverage(@, stats[name].successful_requests + 1, elapsed)]
         ELSE IF timed.timedout
         THEN [stats EXCEPT
                 ![name].failed_requests = @ + 1,
                 ![name].successful_requests = @ + 1]
         ELSE [stats EXCEPT ![name].failed_requests = @ + 1]
    ELSE stats

\* RecordOutcome clearing the failure count on a success
RecordOutcomeClearsFailures(stats, name, timed, elapsed) ==
    IF name \in DOMAIN stats
    THEN IF ~timed.timedout /\ timed.inner.ok
         THEN [stats EXCEPT
                 ![name].successful_requests = @ + 1,
                 ![name].failed_requests = 0,
                 ![name].avg_response_time_ms =
                     RollingAverage(@, stats[name].successful_requests + 1, elapsed)]
         ELSE [stats EXCEPT ![name].failed_requests = @ + 1]
    ELSE stats

\* "Update stats": timed is the value of timeout(..).await, elapsed of
\* duration.as_millis()
RecordOutcome(stats, name, timed, elapsed) ==
    IF name \in DOMAIN stats
    THEN IF ~timed.timedout /\ timed.inner.ok
         THEN [stats EXCEPT
                 ![name].successful_requests = @ + 1,
                 ![name].avg_response_time_ms =
                     RollingAverage(@, stats[name].successful_requests + 1, elapsed)]
         ELSE [stats EXCEPT ![name].failed_requests = @ + 1]
    ELSE stats

\* InvocationResult reporting reqwest's default timeout instead of the configured one
InvocationResultFixedTimeout(timed, timeout_ms) ==
    IF timed.timedout THEN Err(TimeoutError(ReqwestTimeoutMs)) ELSE timed.inner

\* InvocationResult reporting the deadline in seconds (as_secs for as_millis)
InvocationResultSeconds(timed, timeout_ms) ==
    IF timed.timedout THEN Err(TimeoutError(timeout_ms \div 1000)) ELSE timed.inner

\* InvocationResult wrapping a provider's error as web_search does
InvocationResultWraps(timed, timeout_ms) ==
    IF timed.timedout THEN Err(TimeoutError(timeout_ms))
    ELSE IF timed.inner.ok THEN timed.inner
    ELSE Err(OtherError("Search with provider failed"))

\* the final match of search_single_provider_by_index
InvocationResult(timed, timeout_ms) ==
    IF timed.timedout THEN Err(TimeoutError(timeout_ms)) ELSE timed.inner

Completed(inner) == [timedout |-> FALSE, inner |-> inner]
Elapsed == [timedout |-> TRUE, inner |-> Pending]

\* LoadBalanceIndex counting only the successful requests
LoadBalanceIndexBySuccess(stats, count) ==
    SumSet([n \in DOMAIN stats |-> stats[n].successful_requests], DOMAIN stats) % count

\* LoadBalanceIndex leaving the failed requests out of the count
LoadBalanceIndexSkipsFailed(stats, count) ==
    SumSet([n \in DOMAIN stats |-> stats[n].total_requests - stats[n].failed_requests],
           DOMAIN stats) % count

\* search_load_balance: the round-robin index
LoadBalanceIndex(stats, count) ==
    SumSet([n \in DOMAIN stats |-> stats[n].total_requests], DOMAIN stats) % count

\* AggregateFinish without the empty check
AggregateFinishEmptyOk(merged, max_results) ==
    LET sorted == SortByProvider(merged)
    IN Ok(IF max_results.some THEN Truncate(sorted, max_results.val) ELSE sorted)

\* AggregateFinish without the cap
AggregateFinishNoCap(merged, max_results) ==
    IF merged = <<>> THEN Err(AllProvidersFailed)
    ELSE Ok(SortByProvider(merged))

\* AggregateFinish applying the cap before the sort
AggregateFinishCapFirst(merged, max_results) ==
    IF merged = <<>> THEN Err(AllProvidersFailed)
    ELSE Ok(SortByProvider(IF max_results.some THEN Truncate(merged, max_results.val)
                           ELSE merged))

\* search_aggregate after its loop: the empty check, the sort and the cap
AggregateFinish(merged, max_results) ==
    IF merged = <<>> THEN Err(AllProvidersFailed)
    ELSE LET sorted == SortByProvider(merged)
         IN Ok(IF max_results.some THEN Truncate(sorted, max_results.val) ELSE sorted)

\* -------------------------------------------------------------- actions
Count == Len(providers)
NameAt(i) == providers[i + 1]
ZeroInvocations == [i \in 0..(MaxProviders - 1) |-> 0]
TotalInvocations == SumSet(invocations, DOMAIN invocations)

Init ==
    /\ strategy \in Strategies
    /\ providers \in SeqsUpTo(ProviderNames, MaxProviders)
    /\ \E c \in ConfigChoices : timeout_per_provider = c[1] /\ max_concurrent = c[2]
    /\ provider_stats = NewProviderStats(providers)
    /\ pc = "idle"
    /\ options = [max_results |-> None, timeout |-> None]
    /\ cur = 0
    /\ last_error = NoError
    /\ merged_results = <<>>
    /\ successful_providers = <<>>
    /\ ret = Pending
    /\ log = <<>>
    /\ calls = 0
    /\ invocations = ZeroInvocations
    /\ stats_before = provider_stats
    /\ ok_elapsed = [n \in Range(providers) |-> [n |-> 0, sum |-> 0]]
    /\ call_elapsed = 0
    /\ web_pc = "idle"
    /\ web_options = [query |-> <<>>, id_list |-> None, provider |-> <<2>>]
    /\ web_ret = Pending
    /\ web_outcome = Pending
    /\ web_calls = 0
    /\ cli_strategy = "none"

\* search_single_provider_by_index up to its await: count the request and
\* start the provider's call
StartInvocation(i, stats) ==
    /\ provider_stats' = RecordRequest(stats, NameAt(i))
    /\ cur' = i
    /\ pc' = "awaiting"
    /\ ret' = Pending
    /\ invocations' = [invocations EXCEPT ![i] = @ + 1]

\* search returns v; the strategy's locals go out of scope
Return(v, stats) ==
    /\ provider_stats' = stats
    /\ cur' = 0
    /\ pc' = "idle"
    /\ ret' = v
    /\ invocations' = invocations
    /\ last_error' = NoError
    /\ merged_results' = <<>>
    /\ successful_providers' = <<>>

\* FailoverBegin starting at the round-robin index instead of index 0
FailoverBeginRotates ==
    IF Count = 0
    THEN Return(Err(NoProvidersConfigured), provider_stats)
    ELSE /\ StartInvocation(LoadBalanceIndex(provider_stats, Count), provider_stats)
         /\ last_error' = NoProvidersConfigured
         /\ UNCHANGED <<merged_results, successful_providers>>

\* FailoverBegin starting at the first provider that has no recorded failure
FailoverBeginSkipsFailed ==
    IF Count = 0
    THEN Return(Err(NoProvidersConfigured), provider_stats)
    ELSE LET healthy == {i \in 0..(Count - 1) :
                            provider_stats[NameAt(i)].failed_requests = 0}
             first == IF healthy = {} THEN 0
                      ELSE CHOOSE i \in healthy : \A j \in healthy : i <= j
         IN /\ StartInvocation(first, provider_stats)
            /\ last_error' = NoProvidersConfigured
            /\ UNCHANGED <<merged_results, successful_providers>>

\* search_failover before its first provider call
FailoverBegin ==
    IF Count = 0
    THEN Return(Err(NoProvidersConfigured), provider_stats)
    ELSE /\ StartInvocation(0, provider_stats)
         /\ last_error' = NoProvidersConfigured
         /\ UNCHANGED <<merged_results, successful_providers>>

\* FailoverResume jumping to the last provider after a failure
FailoverResumeSkips(result, stats) ==
    IF result.ok
    THEN Return(result, stats)
    ELSE IF cur + 1 < Count
    THEN /\ StartInvocation(Count - 1, stats)
         /\ last_error' = result.err
         /\ UNCHANGED <<merged_results, successful_providers>>
    ELSE Return(Err(result.err), stats)

\* FailoverResume returning the error recorded before the last provider's
FailoverResumeStaleError(result, stats) ==
    IF result.ok
    THEN Return(result, stats)
    ELSE IF cur + 1 < Count
    THEN /\ StartInvocation(cur + 1, stats)
         /\ last_error' = result.err
         /\ UNCHANGED <<merged_results, successful_providers>>
    ELSE Return(Err(last_error), stats)

\* FailoverResume turning the failure of the last provider into an empty success
FailoverResumeSwallowsError(result, stats) ==
    IF result.ok
    THEN Return(result, stats)
    ELSE IF cur + 1 < Count
    THEN /\ StartInvocation(cur + 1, stats)
         /\ last_error' = result.err
         /\ UNCHANGED <<merged_results, successful_providers>>
    ELSE Return(Ok(<<>>), stats)

\* FailoverResume trying a provider a second time after its first failure
FailoverResumeRetries(result, stats) ==
    IF result.ok
    THEN Return(result, stats)
    ELSE IF \A k \in 1..Len(log) : log[k].index # cur
    THEN /\ StartInvocation(cur, stats)
         /\ last_error' = result.err
         /\ UNCHANGED <<merged_results, successful_providers>>
    ELSE IF cur + 1 < Count
    THEN /\ StartInvocation(cur + 1, stats)
         /\ last_error' = result.err
         /\ UNCHANGED <<merged_results, successful_providers>>
    ELSE Return(Err(result.err), stats)

\* search_failover once the call to provider cur has resolved with result
FailoverResume(result, stats) ==
    IF result.ok
    THEN Return(result, stats)
    ELSE IF cur + 1 < Count
    THEN /\ StartInvocation(cur + 1, stats)
         /\ last_error' = result.err
         /\ UNCHANGED <<merged_results, successful_providers>>
    ELSE Return(Err(result.err), stats)

\* search_load_balance before its provider call
LoadBalanceBegin ==
    IF Count = 0
    THEN Return(Err(NoProvidersConfigured), provider_stats)
    ELSE /\ StartInvocation(LoadBalanceIndex(provider_stats, Count), provider_stats)
         /\ UNCHANGED <<last_error, merged_results, successful_providers>>

\* LoadBalanceResume trying the next provider after a failure
LoadBalanceResumeFallsBack(result, stats) ==
    IF result.ok
    THEN Return(result, stats)
    ELSE /\ StartInvocation((cur + 1) % Count, stats)
         /\ UNCHANGED <<last_error, merged_results, successful_providers>>

\* search_load_balance once the call has resolved
LoadBalanceResume(result, stats) == Return(result, stats)

\* search_aggregate before its first provider call
AggregateBegin ==
    IF Count = 0
    THEN Return(AggregateFinish(<<>>, options'.max_results), provider_stats)
    ELSE /\ StartInvocation(0, provider_stats)
         /\ merged_results' = <<>>
         /\ successful_providers' = <<>>
         /\ UNCHANGED last_error

\* AggregateResume treating max_concurrent as a cap on the providers queried
AggregateResumeCapped(result, stats) ==
    LET merged == IF result.ok THEN merged_results \o result.results
                  ELSE merged_results
        successful == IF result.ok THEN Append(successful_providers, NameAt(cur))
                      ELSE successful_providers
    IN IF cur + 1 < Count /\ cur + 1 < max_concurrent
       THEN /\ StartInvocation(cur + 1, stats)
            /\ merged_results' = merged
            /\ successful_providers' = successful
            /\ UNCHANGED last_error
       ELSE Return(AggregateFinish(merged, options.max_results), stats)

\* AggregateResume starting the next call before the stats update of the
\* resolved one is applied
AggregateResumeStaleStats(result, stats) ==
    LET merged == IF result.ok THEN merged_results \o result.results
                  ELSE merged_results
        successful == IF result.ok THEN Append(successful_providers, NameAt(cur))
                      ELSE successful_providers
    IN IF cur + 1 < Count
       THEN /\ StartInvocation(cur + 1, provider_stats)
            /\ merged_results' = merged
            /\ successful_providers' = successful
            /\ UNCHANGED last_error
       ELSE Return(AggregateFinish(merged, options.max_results), stats)

\* AggregateResume ending the loop once max_results results are collected
AggregateResumeStopsAtCap(result, stats) ==
    LET merged == IF result.ok THEN merged_results \o result.results
                  ELSE merged_results
        successful == IF result.ok THEN Append(successful_providers, NameAt(cur))
                      ELSE successful_providers
        full == options.max_results.some /\ Len(merged) >= options.max_results.val
    IN IF cur + 1 < Count /\ ~full
       THEN /\ StartInvocation(cur + 1, stats)
            /\ merged_results' = merged
            /\ successful_providers' = successful
            /\ UNCHANGED last_error
       ELSE Return(AggregateFinish(merged, options.max_results), stats)

\* search_aggregate once the call to provider cur has resolved with result
AggregateResume(result, stats) ==
    LET merged == IF result.ok THEN merged_results \o result.results
                  ELSE merged_results
        successful == IF result.ok THEN Append(successful_providers, NameAt(cur))
                      ELSE successful_providers
    IN IF cur + 1 < Count
       THEN /\ StartInvocation(cur + 1, stats)
            /\ merged_results' = merged
            /\ successful_providers' = successful
            /\ UNCHANGED last_error
       ELSE Return(AggregateFinish(merged, options.max_results), stats)

\* RaceFirstBegin starting at the round-robin index
RaceFirstBeginRotates ==
    IF Count = 0
    THEN Return(Err(NoProvidersConfigured), provider_stats)
    ELSE /\ StartInvocation(LoadBalanceIndex(provider_stats, Count), provider_stats)
         /\ UNCHANGED <<last_error, merged_results, successful_providers>>

\* search_race_first before its first provider call
RaceFirstBegin ==
    IF Count = 0
    THEN Return(Err(NoProvidersConfigured), provider_stats)
    ELSE /\ StartInvocation(0, provider_stats)
         /\ UNCHANGED <<last_error, merged_results, successful_providers>>

\* RaceFirstResume jumping to the last provider after a failure
RaceFirstResumeSkips(result, stats) ==
    IF result.ok
    THEN Return(result, stats)
    ELSE IF cur + 1 < Count
    THEN /\ StartInvocation(Count - 1, stats)
         /\ UNCHANGED <<last_error, merged_results, successful_providers>>
    ELSE Return(Err(AllProvidersInRaceFailed), stats)

\* RaceFirstResume returning the last provider's error, as search_failover does
RaceFirstResumeLastError(result, stats) ==
    IF result.ok
    THEN Return(result, stats)
    ELSE IF cur + 1 < Count
    THEN /\ StartInvocation(cur + 1, stats)
         /\ UNCHANGED <<last_error, merged_results, successful_providers>>
    ELSE Return(Err(result.err), stats)

\* RaceFirstResume giving up at the first failure
RaceFirstResumeGivesUp(result, stats) ==
    IF result.ok
    THEN Return(result, stats)
    ELSE Return(Err(AllProvidersInRaceFailed), stats)

\* search_race_first once the call to provider cur has resolved with result
RaceFirstResume(result, stats) ==
    IF result.ok
    THEN Return(result, stats)
    ELSE IF cur + 1 < Count
    THEN /\ StartInvocation(cur + 1, stats)
         /\ UNCHANGED <<last_error, merged_results, successful_providers>>
    ELSE Return(Err(AllProvidersInRaceFailed), stats)

\* Deadline taking the request's timeout when it is set
DeadlineFromRequest ==
    IF options.timeout.some THEN options.timeout.val ELSE timeout_per_provider

\* Deadline as what is left of one budget shared by the whole search
DeadlineOfSearch ==
    IF call_elapsed < timeout_per_provider
    THEN timeout_per_provider - call_elapsed ELSE 0

\* the duration given to tokio::time::timeout for the call in flight
Deadline == timeout_per_provider

\* MultiProviderSearch::search called with one of requests
SearchWith(requests) ==
    /\ pc = "idle"
    /\ calls < MaxCalls
    /\ TotalInvocations < MaxInvocations
    /\ options' \in requests
    /\ calls' = calls + 1
    /\ log' = <<>>
    /\ stats_before' = provider_stats
    /\ call_elapsed' = 0
    /\ CASE strategy = "Failover" -> FailoverBegin
         [] strategy = "LoadBalance" -> LoadBalanceBegin
         [] strategy = "Aggregate" -> AggregateBegin
         [] strategy = "RaceFirst" -> RaceFirstBegin
    /\ UNCHANGED <<config, ok_elapsed, web_vars, cli_strategy>>

\* MultiProviderSearch::search: a caller starts a search with some request
Search == SearchWith(Requests)

\* the rest of search_single_provider_by_index, from the value of
\* timeout(..).await on, and the strategy's code up to its next await or return
Resolve(timed, elapsed) ==
    LET stats == RecordOutcome(provider_stats, NameAt(cur), timed, elapsed)
        result == InvocationResult(timed, timeout_per_provider)
    IN /\ log' = Append(log, [index |-> cur, result |-> result])
       /\ ok_elapsed' =
              IF result.ok
              THEN [ok_elapsed EXCEPT ![NameAt(cur)] =
                       [n |-> @.n + 1, sum |-> @.sum + elapsed]]
              ELSE ok_elapsed
       /\ call_elapsed' = call_elapsed + elapsed
       /\ CASE strategy = "Failover" -> FailoverResume(result, stats)
            [] strategy = "LoadBalance" -> LoadBalanceResume(result, stats)
            [] strategy = "Aggregate" -> AggregateResume(result, stats)
            [] strategy = "RaceFirst" -> RaceFirstResume(result, stats)
       /\ UNCHANGED <<config, options, calls, stats_before, web_vars, cli_strategy>>

\* the provider in flight answers with a result list inside the deadline
ProviderReturnsOk ==
    /\ pc = "awaiting"
    /\ \E o \in OkOutcomes :
          /\ o.elapsed < Deadline
          /\ Resolve(Completed(Ok(o.results)), o.elapsed)

\* the provider in flight answers with an error inside the deadline
ProviderReturnsErr ==
    /\ pc = "awaiting"
    /\ \E e \in ProviderErrors : Resolve(Completed(Err(e)), 0)

\* DeadlineExpires for a provider call made without the timeout wrapper
DeadlineNeverExpires ==
    /\ pc = "awaiting"
    /\ timeout_per_provider < 0
    /\ Resolve(Elapsed, timeout_per_provider)

\* the provider in flight has not answered when the deadline expires
DeadlineExpires ==
    /\ pc = "awaiting"
    /\ Resolve(Elapsed, Deadline)

Next ==
    \/ Search
    \/ ProviderReturnsOk
    \/ ProviderReturnsErr
    \/ DeadlineExpires

\* tokio's timer fires once the deadline has passed, whatever the provider
\* does; a provider is not bound to answer
LiveNext ==
    \/ Search /\ calls' <= MaxLiveCalls
    \/ ProviderReturnsOk
    \/ ProviderReturnsErr
    \/ DeadlineExpires

LiveSpec == Init /\ [][LiveNext]_vars /\ WF_vars(DeadlineExpires)

Spec == Init /\ [][Next]_vars

\* ------------------------------------------------- the command line
\* StrategyFromCli giving each option the strategy of its name
StrategyFromCliByName(s) ==
    CASE s = "failover" -> "Failover"
      [] s = "load-balance" -> "LoadBalance"
      [] s = "aggregate" -> "Aggregate"
      [] s = "race" -> "RaceFirst"

\* the match on StrategyCli in handle_multi_search
StrategyFromCli(s) ==
    CASE s = "failover" -> "Failover"
      [] s = "load-balance" -> "LoadBalance"
      [] s = "aggregate" -> "Aggregate"
      [] s = "race" -> "Aggregate"

\* handle_multi_search up to its search call: the strategy from the option,
\* the providers added to a default configuration, a fresh orchestrator
CliInit ==
    /\ cli_strategy \in StrategyCli
    /\ strategy = StrategyFromCli(cli_strategy)
    /\ providers \in SeqsUpTo(ProviderNames, MaxProviders)
    /\ timeout_per_provider = DefaultTimeoutMs
    /\ max_concurrent = DefaultMaxConcurrent
    /\ provider_stats = NewProviderStats(providers)
    /\ pc = "idle"
    /\ options = [max_results |-> None, timeout |-> None]
    /\ cur = 0
    /\ last_error = NoError
    /\ merged_results = <<>>
    /\ successful_providers = <<>>
    /\ ret = Pending
    /\ log = <<>>
    /\ calls = 0
    /\ invocations = ZeroInvocations
    /\ stats_before = provider_stats
    /\ ok_elapsed = [n \in Range(providers) |-> [n |-> 0, sum |-> 0]]
    /\ call_elapsed = 0
    /\ web_pc = "idle"
    /\ web_options = [query |-> <<>>, id_list |-> None, provider |-> <<2>>]
    /\ web_ret = Pending
    /\ web_outcome = Pending
    /\ web_calls = 0

\* handle_multi_search makes one search call
CliSearch ==
    /\ calls = 0
    /\ SearchWith(CliRequests)

CliNext ==
    \/ CliSearch
    \/ ProviderReturnsOk
    \/ ProviderReturnsErr
    \/ DeadlineExpires

CliSpec == CliInit /\ [][CliNext]_vars

\* ------------------------------------------------------------- web_search
\* WebInvalid rejecting every empty query
WebInvalidIgnoresIdList(o) == o.query = <<>>

\* "Validate required options"
WebInvalid(o) == o.query = <<>> /\ ~o.id_list.some

\* what options.provider.search can answer: a result list, an error, or, from
\* an adapter that checks the query itself, its own InvalidInput
WebProviderAnswers(o) ==
    {Ok(out.results) : out \in OkOutcomes}
        \cup {Err(e) : e \in ProviderErrors}
        \cup (IF o.query = <<>> THEN {Err(QueryCannotBeEmpty)} ELSE {})

\* the orchestrator's variables, which web_search does not touch
OrchestratorIdle ==
    UNCHANGED <<config, provider_stats, pc, options, cur, last_error,
                merged_results, successful_providers, ret, log, calls,
                invocations, stats_before, ok_elapsed, call_elapsed,
                cli_strategy>>

\* web_search up to its await: the validation, then the provider's call
WebSearch ==
    /\ web_pc = "idle"
    /\ web_calls < MaxWebCalls
    /\ web_options' \in WebOptions
    /\ web_calls' = web_calls + 1
    /\ web_outcome' = Pending
    /\ IF WebInvalid(web_options')
       THEN web_pc' = "idle" /\ web_ret' = Err(QueryOrIdListRequired)
       ELSE web_pc' = "awaiting" /\ web_ret' = Pending
    /\ OrchestratorIdle

\* web_search from the value of options.provider.search(..).await on
WebProviderReturns ==
    /\ web_pc = "awaiting"
    /\ \E answer \in WebProviderAnswers(web_options) :
          /\ web_outcome' = answer
          /\ web_ret' = IF answer.ok THEN answer
                        ELSE Err(ProviderError(web_options.provider, answer.err))
    /\ web_pc' = "idle"
    /\ UNCHANGED <<web_options, web_calls>>
    /\ OrchestratorIdle

WebInit ==
    /\ Init
    /\ strategy = "Failover"
    /\ providers = <<>>
    /\ timeout_per_provider = DefaultTimeoutMs

WebNext ==
    \/ WebSearch
    \/ WebProviderReturns

WebSpec == WebInit /\ [][WebNext]_vars


\* ---------------------------------------------------------------- claims
\* a search call has returned and nothing is in flight
Returned == pc = "idle" /\ calls > 0

Succeeded(k) == k \in 1..Len(log) /\ log[k].result.ok
AllFailed == \A k \in 1..Len(log) : ~log[k].result.ok
\* position in log of the first invocation of this call that succeeded
FirstSuccess == CHOOSE k \in 1..Len(log) : Succeeded(k) /\ \A j \in 1..(k - 1) : ~Succeeded(j)

\* C1: whenever a search call has returned, every stats entry has
\* total_requests = successful_requests + failed_requests
C1_StatsBalanced ==
    pc = "idle" =>
        \A n \in DOMAIN provider_stats :
            provider_stats[n].total_requests =
                provider_stats[n].successful_requests + provider_stats[n].failed_requests

C1_Witness ==
    /\ Returned
    /\ \E n \in DOMAIN provider_stats :
          /\ provider_stats[n].successful_requests > 0
          /\ provider_stats[n].failed_requests > 1
    /\ \E k \in 1..Len(log) : log[k].result.err = TimeoutError(timeout_per_provider)

\* C2: under Failover, when provider k is the first to succeed, search returns
\* provider k's list, and providers 0..k-1 were invoked once each, in
\* registration order, before k (and nothing after k)
C2_FailoverFirstSuccess ==
    (strategy = "Failover" /\ Returned /\ \E k \in 1..Len(log) : Succeeded(k)) =>
        /\ ret = Ok(log[FirstSuccess].result.results)
        /\ Len(log) = FirstSuccess
        /\ \A j \in 1..Len(log) : log[j].index = j - 1

C2_Witness ==
    /\ strategy = "Failover"
    /\ Returned
    /\ Len(log) = 3
    /\ Succeeded(3)
    /\ ret.ok /\ ret.results # <<>>

\* C3: under Failover with every provider failing, search returns the error
\* of the last provider in registration order, unchanged
C3_FailoverLastError ==
    (strategy = "Failover" /\ Returned /\ Count > 0 /\ AllFailed) =>
        /\ Len(log) = Count
        /\ log[Count].index = Count - 1
        /\ ret = Err(log[Count].result.err)

C3_Witness ==
    /\ strategy = "Failover"
    /\ Returned
    /\ Count = 3
    /\ AllFailed
    /\ log[1].result.err = HttpError(500)
    /\ log[2].result.err = TimeoutError(ReqwestTimeoutMs)
    /\ ret = Err(TimeoutError(timeout_per_provider))
    /\ timeout_per_provider # ReqwestTimeoutMs

\* C4: with an empty provider list, search under each strategy returns the
\* "No providers configured" error and the stats map stays empty
C4_EmptyProvidersError ==
    (Returned /\ Count = 0) =>
        /\ ret = Err(NoProvidersConfigured)
        /\ DOMAIN provider_stats = {}

\* C5: under LoadBalance with P >= 1 providers the j-th call (j from 0)
\* invokes the provider at index j mod P, so after N calls each provider has
\* been selected floor(N/P) or ceil(N/P) times
C5_LoadBalanceRoundRobin ==
    (strategy = "LoadBalance" /\ Count >= 1 /\ calls > 0) =>
        /\ pc = "awaiting" => cur = (calls - 1) % Count
        /\ pc = "idle" => Len(log) = 1 /\ log[1].index = (calls - 1) % Count
        /\ \A i \in 0..(Count - 1) :
              /\ invocations[i] = Cardinality({j \in 0..(calls - 1) : j % Count = i})
              /\ invocations[i] \in {calls \div Count, (calls + Count - 1) \div Count}

C5_Witness ==
    /\ strategy = "LoadBalance"
    /\ Count = 3
    /\ calls = 4
    /\ pc = "idle"
    /\ log[1].index = 0
    /\ invocations[0] = 2 /\ invocations[1] = 1 /\ invocations[2] = 1


\* what one provider invocation can yield under the configured timeout
InvocationResults ==
    {Ok(o.results) : o \in OkOutcomes} \cup {Err(e) : e \in ProviderErrors}
        \cup {Err(TimeoutError(timeout_per_provider))}

\* a LoadBalance step: Search invokes exactly one provider; the step that
\* resolves its call returns its outcome as it is and invokes nothing else;
\* unchanged(sel) is the frame on the stats, sel the invoked index
C6_Step(unchanged(_)) ==
    (strategy = "LoadBalance" /\ Count > 0) =>
        /\ pc = "idle" =>
              /\ pc' = "awaiting"
              /\ invocations' = [invocations EXCEPT ![cur'] = @ + 1]
              /\ unchanged(cur')
        /\ pc = "awaiting" =>
              /\ pc' = "idle"
              /\ invocations' = invocations
              /\ ret' \in InvocationResults
              /\ log' = <<[index |-> cur, result |-> ret']>>
              /\ unchanged(cur)

C6_OthersByName(sel) ==
    \A n \in DOMAIN provider_stats :
        n # NameAt(sel) => provider_stats'[n] = provider_stats[n]

C6_OthersByIndex(sel) ==
    \A i \in 0..(Count - 1) :
        i # sel => provider_stats'[NameAt(i)] = provider_stats[NameAt(i)]

\* C6 (as amended): under LoadBalance each search call invokes exactly one
\* provider, returns its outcome (success or failure) as it is with no
\* fallback, and leaves unchanged every stats entry keyed by a name other than
\* the selected provider's name
C6_LoadBalanceSingle == [][C6_Step(C6_OthersByName)]_vars

\* C6 (as claimed): ... and leaves the stats of every other provider
\* (every other registration index) unchanged
C6_LoadBalanceOthersUntouched == [][C6_Step(C6_OthersByIndex)]_vars

C6_Witness ==
    /\ strategy = "LoadBalance"
    /\ Returned
    /\ Count = 3
    /\ providers[1] # providers[2]
    /\ calls = 2
    /\ ret = Err(HttpError(500))
    /\ log = <<[index |-> 1, result |-> ret]>>
    /\ provider_stats[providers[1]].failed_requests = 0

\* C7: under Aggregate with a non-empty provider list, when every provider
\* fails search returns the "All providers failed" error and none of the
\* providers' own errors
C7_AggregateAllFailed ==
    (strategy = "Aggregate" /\ Returned /\ Count > 0 /\ AllFailed) =>
        /\ Len(log) = Count
        /\ ret = Err(AllProvidersFailed)
        /\ \A k \in 1..Len(log) : ret # log[k].result

C7_Witness ==
    /\ strategy = "Aggregate"
    /\ Returned
    /\ Count = 2
    /\ AllFailed
    /\ log[1].result.err # log[2].result.err
    /\ ret = Err(AllProvidersFailed)

\* C8: under Aggregate, whenever at least one provider's invocation succeeds
\* (whatever the length of its list) search returns Ok
C8_AggregateOkIfAnySucceeds ==
    (strategy = "Aggregate" /\ Returned /\ \E k \in 1..Len(log) : Succeeded(k)) =>
        ret.ok

\* total length of the lists of the invocations of this call that succeeded
RECURSIVE SuccessLen(_)
SuccessLen(k) ==
    IF k = 0 THEN 0
    ELSE SuccessLen(k - 1) + (IF log[k].result.ok THEN Len(log[k].result.results) ELSE 0)

\* the lists of the invocations that succeeded, concatenated in invocation order
RECURSIVE Concatenated(_)
Concatenated(k) ==
    IF k = 0 THEN <<>>
    ELSE Concatenated(k - 1) \o (IF log[k].result.ok THEN log[k].result.results ELSE <<>>)

Min(a, b) == IF a <= b THEN a ELSE b

\* C9: under Aggregate a returned list has length min(S, max_results) when
\* max_results is set and S when it is not, S the summed length of the lists
\* of the providers that succeeded; duplicates are kept
C9_AggregateLength ==
    (strategy = "Aggregate" /\ Returned /\ ret.ok) =>
        Len(ret.results) =
            IF options.max_results.some
            THEN Min(SuccessLen(Len(log)), options.max_results.val)
            ELSE SuccessLen(Len(log))

C9_Witness ==
    /\ strategy = "Aggregate"
    /\ Returned
    /\ ret.ok
    /\ options.max_results = Some(2)
    /\ SuccessLen(Len(log)) = 3
    /\ Len(ret.results) = 2
    /\ ret.results[1] = ret.results[2]

\* the order of the provider fields that occur: None, then "ab", then "b"
ProviderRank(p) == IF ~p.some THEN 0 ELSE IF p.val = <<1, 2>> THEN 1 ELSE 2

WithRank(list, r) == SelectSeq(list, LAMBDA x : ProviderRank(x.provider) = r)

\* C10: under Aggregate a returned list is in ascending order of provider
\* name, entries without a provider name first, and entries with the same
\* provider name keep the order of the registration-order concatenation
C10_AggregateOrder ==
    (strategy = "Aggregate" /\ Returned /\ ret.ok) =>
        LET all == Concatenated(Len(log))
            ordered == WithRank(all, 0) \o WithRank(all, 1) \o WithRank(all, 2)
        IN /\ Len(ret.results) <= Len(ordered)
           /\ ret.results = SubSeq(ordered, 1, Len(ret.results))

C10_Witness ==
    /\ strategy = "Aggregate"
    /\ Returned
    /\ Concatenated(Len(log)) =
          <<Item(Some(<<2>>), 2), Item(Some(<<1, 2>>), 1), Item(Some(<<2>>), 1), Item(None, 1)>>
    /\ ret = Ok(<<Item(None, 1), Item(Some(<<1, 2>>), 1), Item(Some(<<2>>), 2), Item(Some(<<2>>), 1)>>)

\* the concatenation of this call's successful lists in name order: entries
\* without a provider name, then "ab", then "b", each group in its own order
NameSorted ==
    LET all == Concatenated(Len(log))
    IN WithRank(all, 0) \o WithRank(all, 1) \o WithRank(all, 2)

\* C11: under Aggregate the cap is applied after the sort: with max_results
\* set, the returned list is the first max_results elements of the name-sorted
\* merged list, whatever the registration order
C11_AggregateCapAfterSort ==
    (strategy = "Aggregate" /\ Returned /\ ret.ok /\ options.max_results.some) =>
        ret.results = SubSeq(NameSorted, 1, Min(options.max_results.val, Len(NameSorted)))

\* "b" is registered before "ab"; the two entries kept are not the first two
\* of the concatenation
C11_Witness ==
    /\ strategy = "Aggregate"
    /\ Returned
    /\ providers = <<<<2>>, <<1, 2>>>>
    /\ options.max_results = Some(2)
    /\ Concatenated(Len(log)) =
          <<Item(Some(<<2>>), 1), Item(None, 1), Item(Some(<<2>>), 2), Item(Some(<<1, 2>>), 1)>>
    /\ ret = Ok(<<Item(None, 1), Item(Some(<<1, 2>>), 1)>>)

\* the stats entry of the provider in flight
CurStats == provider_stats[NameAt(cur)]

\* C12: when the provider's call does not complete within the per-provider
\* timeout T, the invocation's outcome is Timeout { timeout_ms: T }, the
\* provider's failed_requests grows by 1 and its successful_requests does not
C12_TimeoutOutcome ==
    [][DeadlineExpires =>
          /\ log' = Append(log, [index |-> cur,
                                 result |-> Err(TimeoutError(timeout_per_provider))])
          /\ provider_stats'[NameAt(cur)].failed_requests = CurStats.failed_requests + 1
          /\ provider_stats'[NameAt(cur)].successful_requests = CurStats.successful_requests
      ]_vars

\* one provider, a 50 ms timeout, Failover: Timeout { timeout_ms: 50 } is
\* returned and failed_requests is 1
C12_Witness ==
    /\ strategy = "Failover"
    /\ Returned
    /\ providers = <<<<2>>>>
    /\ timeout_per_provider = 50
    /\ calls = 1
    /\ ret = Err(TimeoutError(50))
    /\ provider_stats[<<2>>].failed_requests = 1
    /\ provider_stats[<<2>>].successful_requests = 0
    /\ provider_stats[<<2>>].total_requests = 1

AnySucceeded == \E k \in 1..Len(log) : Succeeded(k)
SequentialStop == IF AnySucceeded THEN FirstSuccess ELSE Count

\* what search_failover returns for the outcomes of this call
FailoverValue ==
    IF AnySucceeded THEN Ok(log[FirstSuccess].result.results)
    ELSE IF Count = 0 THEN Err(NoProvidersConfigured)
    ELSE Err(log[Len(log)].result.err)

\* entries of this call's log for providers named n that satisfy pred
LogCount(n, pred(_)) ==
    Cardinality({k \in 1..Len(log) : NameAt(log[k].index) = n /\ pred(log[k].result)})

IsAny(r) == TRUE
IsOk(r) == r.ok
IsErr(r) == ~r.ok

\* the counters move by what the invocations of this call contributed,
\* whatever the strategy
CountersFollowLog ==
    \A n \in DOMAIN provider_stats :
        /\ provider_stats[n].total_requests =
              stats_before[n].total_requests + LogCount(n, IsAny)
        /\ provider_stats[n].successful_requests =
              stats_before[n].successful_requests + LogCount(n, IsOk)
        /\ provider_stats[n].failed_requests =
              stats_before[n].failed_requests + LogCount(n, IsErr)

\* Failover and Race make the same invocations for the same outcomes
SameWalk ==
    /\ Len(log) = SequentialStop
    /\ \A j \in 1..Len(log) : log[j].index = j - 1
    /\ CountersFollowLog

C16_NoSuccessFromFailure ==
    (Returned /\ ret.ok) =>
        /\ AnySucceeded
        /\ \A i \in 1..Len(ret.results) :
              \E k \in 1..Len(log) :
                  /\ Succeeded(k)
                  /\ \E j \in 1..Len(log[k].result.results) :
                        log[k].result.results[j] = ret.results[i]

C16_Witness ==
    /\ strategy = "Aggregate"
    /\ Returned
    /\ Count = 3
    /\ ~Succeeded(1) /\ Succeeded(2) /\ ~Succeeded(3)
    /\ ret.ok
    /\ Len(ret.results) = 2
    /\ ret.results # log[2].result.results

\* the invocations of this call made to registration index i, the one in
\* flight included
InvokedInCall(i) ==
    Cardinality({k \in 1..Len(log) : log[k].index = i})
        + (IF pc = "awaiting" /\ cur = i THEN 1 ELSE 0)

\* C17: every search call runs to completion: whatever the providers do
\* (answer, fail or never respond) the call in flight resolves and search
\* returns an Ok or Err value, after at most one invocation per registered
\* provider
C17_SearchReturns ==
    /\ (pc = "awaiting") ~> (pc = "idle" /\ ret # Pending)
    /\ [](\A i \in 0..(MaxProviders - 1) :
             InvokedInCall(i) <= (IF i < Count THEN 1 ELSE 0))

C17_Witness ==
    /\ Returned
    /\ Count = 3
    /\ Len(log) = 3
    /\ \A k \in 1..3 : log[k].result = Err(TimeoutError(timeout_per_provider))
    /\ ret # Pending

\* C18: determinism: the value returned is a fixed function of the provider
\* list, the request and the outcomes of the invocations: for Failover from
\* any prior history (the walk starts at index 0 and the value is
\* FailoverValue, neither reads the stats), for LoadBalance from a fresh
\* orchestrator (the j-th call returns the outcome of index j mod P)
C18_Deterministic ==
    Returned =>
        /\ strategy = "Failover" =>
              /\ \A j \in 1..Len(log) : log[j].index = j - 1
              /\ Len(log) = SequentialStop
              /\ ret = FailoverValue
        /\ (strategy = "LoadBalance" /\ Count > 0) =>
              log = <<[index |-> (calls - 1) % Count, result |-> ret]>>

\* a Failover call made after calls in which provider 0 failed
C18_Witness ==
    /\ strategy = "Failover"
    /\ Returned
    /\ Count = 2
    /\ calls = 3
    /\ stats_before[NameAt(0)].failed_requests = 2
    /\ log = <<[index |-> 0, result |-> ret]>>
    /\ ret.ok

\* C19: each provider invocation adds exactly 1 to that provider's
\* total_requests (when it starts) and exactly 1 to one of
\* successful_requests (the provider returned Ok inside the deadline) or
\* failed_requests (provider error or timeout), and nothing else changes the
\* counters
C19_InvocationCounts ==
    [][\A n \in DOMAIN provider_stats :
          LET started == pc' = "awaiting" /\ NameAt(cur') = n
              resolved == pc = "awaiting" /\ NameAt(cur) = n
          IN /\ provider_stats'[n].total_requests =
                    provider_stats[n].total_requests + (IF started THEN 1 ELSE 0)
             /\ provider_stats'[n].successful_requests =
                    provider_stats[n].successful_requests
                        + (IF resolved /\ ProviderReturnsOk THEN 1 ELSE 0)
             /\ provider_stats'[n].failed_requests =
                    provider_stats[n].failed_requests
                        + (IF resolved /\ (ProviderReturnsErr \/ DeadlineExpires)
                           THEN 1 ELSE 0)
      ]_vars

C19_Witness ==
    /\ Returned
    /\ Count = 1
    /\ provider_stats[NameAt(0)].total_requests = 3
    /\ provider_stats[NameAt(0)].successful_requests = 1
    /\ provider_stats[NameAt(0)].failed_requests = 2

\* the names of the providers invoked in this call
InvokedNames == {NameAt(log[k].index) : k \in 1..Len(log)}

\* C20 (as amended): under Failover, once the provider at index k succeeds no
\* provider at an index greater than k is invoked in that call, and the stats
\* entry of each later provider is unchanged unless it shares its name with a
\* provider invoked in the call
C20_FailoverLaterUntouched ==
    (strategy = "Failover" /\ Returned /\ AnySucceeded) =>
        \A i \in FirstSuccess..(Count - 1) :
            /\ \A k \in 1..Len(log) : log[k].index # i
            /\ NameAt(i) \notin InvokedNames =>
                  provider_stats[NameAt(i)] = stats_before[NameAt(i)]

\* C20 (as claimed): ... so the stats of those later providers are unchanged
C20_FailoverLaterStatsUnchanged ==
    (strategy = "Failover" /\ Returned /\ AnySucceeded) =>
        \A i \in FirstSuccess..(Count - 1) :
            /\ \A k \in 1..Len(log) : log[k].index # i
            /\ provider_stats[NameAt(i)] = stats_before[NameAt(i)]

\* the first provider always succeeds: the second one's total_requests stays 0
C20_Witness ==
    /\ strategy = "Failover"
    /\ Returned
    /\ Count = 2
    /\ providers[1] # providers[2]
    /\ calls = 3
    /\ Succeeded(1)
    /\ provider_stats[NameAt(0)].successful_requests = 3
    /\ provider_stats[NameAt(1)].total_requests = 0

\* C21: Failover keeps no memory of earlier failures: whatever the stats
\* say, a search call under Failover starts with the provider at index 0,
\* and when that provider answers with a success the call returns that
\* success at once
C21_FailoverNoMemory ==
    [][strategy = "Failover" =>
          /\ (pc = "idle" /\ pc' = "awaiting") => cur' = 0
          /\ (pc = "awaiting" /\ cur = 0 /\ ProviderReturnsOk) =>
                /\ pc' = "idle"
                /\ Len(log') = 1
                /\ ret'.ok
                /\ ret' = log'[1].result
      ]_vars

\* provider 0 failed in the previous call, was tried first again and succeeded
C21_Witness ==
    /\ strategy = "Failover"
    /\ Returned
    /\ Count = 2
    /\ providers[1] # providers[2]
    /\ calls = 2
    /\ stats_before[NameAt(0)].failed_requests = 1
    /\ stats_before[NameAt(0)].successful_requests = 0
    /\ provider_stats[NameAt(0)].successful_requests = 1
    /\ log = <<[index |-> 0, result |-> ret]>>
    /\ ret.ok

\* C22 (as amended): a Timeout error returned by search is either the one
\* made when the deadline expired, which carries the configured
\* timeout_per_provider in ms, or the Timeout error a provider itself
\* returned inside the deadline, passed on unchanged with the provider's own
\* timeout_ms
C22_TimeoutOrigin ==
    [][(pc' = "idle" /\ ret' # ret /\ ret'.err.kind = "Timeout") =>
          IF DeadlineExpires
          THEN ret'.err.code = timeout_per_provider
          ELSE /\ ProviderReturnsErr
               /\ ret'.err \in ProviderErrors
               /\ ret' = log'[Len(log')].result
      ]_vars

\* C22 (as claimed): every Timeout error returned by search carries the
\* configured per-provider timeout
C22_TimeoutCarriesConfigured ==
    (Returned /\ ret.err.kind = "Timeout") => ret.err.code = timeout_per_provider

\* both providers ran into the deadline
C22_Witness ==
    /\ strategy = "Failover"
    /\ Returned
    /\ Count = 2
    /\ Len(log) = 2
    /\ log[1].result = Err(TimeoutError(timeout_per_provider))
    /\ ret = Err(TimeoutError(timeout_per_provider))
    /\ timeout_per_provider = DefaultTimeoutMs

\* provider calls started and not yet resolved, as the counters record them
InFlight ==
    SumSet([n \in DOMAIN provider_stats |->
               provider_stats[n].total_requests
                   - provider_stats[n].successful_requests
                   - provider_stats[n].failed_requests],
           DOMAIN provider_stats)

\* the averages are the means of the elapsed times of the successes
MeansFollowHistory ==
    \A n \in DOMAIN provider_stats :
        provider_stats[n].avg_response_time_ms =
            IF ok_elapsed[n].n = 0 THEN [num |-> 0, den |-> 1]
            ELSE Reduce(ok_elapsed[n].sum, ok_elapsed[n].n)

\* the invocations a call makes and the value it returns, written from the
\* strategy, the provider list, the request, the stats at the start of the
\* call and the providers' outcomes alone
ExpectedLen ==
    CASE strategy \in {"Failover", "RaceFirst"} -> SequentialStop
      [] strategy = "Aggregate" -> Count
      [] strategy = "LoadBalance" -> IF Count = 0 THEN 0 ELSE 1

ExpectedIndex(j) ==
    IF strategy = "LoadBalance" THEN LoadBalanceIndex(stats_before, Count) ELSE j - 1

ExpectedValue ==
    CASE strategy = "Failover" -> FailoverValue
      [] strategy = "RaceFirst" ->
            IF Count > 0 /\ AllFailed THEN Err(AllProvidersInRaceFailed)
            ELSE FailoverValue
      [] strategy = "Aggregate" ->
            AggregateFinish(Concatenated(Len(log)), options.max_results)
      [] strategy = "LoadBalance" ->
            IF Count = 0 THEN Err(NoProvidersConfigured) ELSE log[1].result

StepElapsed == ok_elapsed'[NameAt(cur)].sum - ok_elapsed[NameAt(cur)].sum

\* C24 (as amended): the request's timeout field does not set the deadline:
\* whatever it holds, a provider's answer is accepted when it arrives before
\* the configured timeout_per_provider, and a call abandoned at the deadline
\* yields Timeout with the configured timeout_per_provider
C24_DeadlineIsConfigured ==
    [][pc = "awaiting" =>
          /\ ProviderReturnsOk => StepElapsed < timeout_per_provider
          /\ DeadlineExpires =>
                log'[Len(log')].result = Err(TimeoutError(timeout_per_provider))
      ]_vars

\* C24 (as claimed): when the request's timeout is set it is the deadline of
\* each provider invocation of that search, so no answer is accepted at or
\* after it
C24_RequestTimeoutIsDeadline ==
    [][(pc = "awaiting" /\ options.timeout.some /\ ProviderReturnsOk) =>
          StepElapsed < options.timeout.val
      ]_vars

\* an answer after 30 ms is accepted although the request's timeout is 20 ms
C24_Witness ==
    /\ Returned
    /\ Count = 1
    /\ calls = 1
    /\ options.timeout = Some(20)
    /\ timeout_per_provider = 50
    /\ ret.ok
    /\ ok_elapsed[NameAt(0)] = [n |-> 1, sum |-> 30]

\* a call of web_search has returned
WebReturned == web_pc = "idle" /\ web_calls > 0

\* C25: web_search returns InvalidInput, without calling the provider, exactly
\* when the query is empty and no id_list is given; with an empty query and
\* an id_list the provider is called, and when it answers with results they
\* are what web_search returns
C25_WebSearchValidation ==
    WebReturned =>
        /\ web_ret.err.kind = "InvalidInput" <=>
              (web_options.query = <<>> /\ ~web_options.id_list.some)
        /\ web_ret.err.kind = "InvalidInput" => web_outcome = Pending
        /\ (web_options.query = <<>> /\ web_options.id_list.some) =>
              /\ web_outcome # Pending
              /\ web_outcome.ok => web_ret = web_outcome

\* an empty query with an id_list: the provider's two results come back
C25_Witness ==
    /\ WebReturned
    /\ web_options.query = <<>>
    /\ web_options.id_list = Some(<<7>>)
    /\ web_outcome.ok
    /\ Len(web_ret.results) = 2

\* the step resolves the call in flight with answer, given by the provider
\* inside the deadline, as the invocation's result, and search passes it on
PassedOn(answer) ==
    /\ log'[Len(log')].result = answer
    /\ (strategy = "LoadBalance") => (pc' = "idle" /\ ret' = answer)
    /\ (strategy = "Failover" /\ (answer.ok \/ cur + 1 = Count)) =>
          (pc' = "idle" /\ ret' = answer)
    /\ (strategy = "Failover" /\ ~answer.ok /\ cur + 1 < Count) =>
          last_error' = answer.err

\* C26: when the provider answers inside the deadline the timed invoker
\* returns the provider's own outcome unchanged, the same list or the same
\* error value, and Failover (as last error) and LoadBalance surface it to
\* the caller without wrapping
C26_OutcomeUnchanged ==
    [][pc = "awaiting" =>
          /\ \A o \in OkOutcomes :
                Resolve(Completed(Ok(o.results)), o.elapsed) => PassedOn(Ok(o.results))
          /\ \A e \in ProviderErrors :
                Resolve(Completed(Err(e)), 0) => PassedOn(Err(e))
      ]_vars

\* LoadBalance hands the caller the provider's own Timeout error
C26_Witness ==
    /\ strategy = "LoadBalance"
    /\ Returned
    /\ Count = 2
    /\ calls = 2
    /\ log = <<[index |-> 1, result |-> Err(TimeoutError(ReqwestTimeoutMs))]>>
    /\ ret = Err(TimeoutError(ReqwestTimeoutMs))

OutcomeFields(s) ==
    <<s.successful_requests, s.failed_requests, s.avg_response_time_ms>>

\* C28 (as amended): an invocation that fails or times out leaves every
\* avg_response_time_ms unchanged, and an invocation leaves unchanged every
\* field of the entries of the providers with another name (providers with
\* the same name share one entry, which the invocation does change)
C28_StatsFrame ==
    [][/\ (ProviderReturnsErr \/ DeadlineExpires) =>
             \A n \in DOMAIN provider_stats :
                 provider_stats'[n].avg_response_time_ms =
                     provider_stats[n].avg_response_time_ms
       /\ \A n \in DOMAIN provider_stats :
             /\ ~(pc = "awaiting" /\ n = NameAt(cur)) =>
                   OutcomeFields(provider_stats'[n]) = OutcomeFields(provider_stats[n])
             /\ ~(pc' = "awaiting" /\ n = NameAt(cur')) =>
                   provider_stats'[n].total_requests = provider_stats[n].total_requests
      ]_vars

\* C28 (as claimed): ... and an invocation of one provider leaves every field
\* of every other provider's entry unchanged
C28_OtherProvidersUntouched ==
    [][/\ (ProviderReturnsErr \/ DeadlineExpires) =>
             \A n \in DOMAIN provider_stats :
                 provider_stats'[n].avg_response_time_ms =
                     provider_stats[n].avg_response_time_ms
       /\ \A j \in 0..(Count - 1) :
             /\ ~(pc = "awaiting" /\ j = cur) =>
                   OutcomeFields(provider_stats'[NameAt(j)]) =
                       OutcomeFields(provider_stats[NameAt(j)])
             /\ ~(pc' = "awaiting" /\ j = cur') =>
                   provider_stats'[NameAt(j)].total_requests =
                       provider_stats[NameAt(j)].total_requests
      ]_vars

\* provider 0 answered after 30 ms, then provider 1 and provider 0 timed out:
\* provider 0's mean is still 30
C28_Witness ==
    /\ strategy = "LoadBalance"
    /\ Returned
    /\ Count = 2
    /\ providers[1] # providers[2]
    /\ calls = 3
    /\ ret = Err(TimeoutError(timeout_per_provider))
    /\ provider_stats[NameAt(0)] =
          [total_requests |-> 2, successful_requests |-> 1, failed_requests |-> 1,
           avg_response_time_ms |-> [num |-> 30, den |-> 1]]
    /\ provider_stats[NameAt(1)] =
          [total_requests |-> 1, successful_requests |-> 0, failed_requests |-> 1,
           avg_response_time_ms |-> [num |-> 0, den |-> 1]]

\* provider calls started, by the history, and not yet recorded as resolved
\* in the stats
Unrecorded ==
    TotalInvocations
        - SumSet([n \in DOMAIN provider_stats |->
                     provider_stats[n].successful_requests
                         + provider_stats[n].failed_requests],
                 DOMAIN provider_stats)

C30_TimeoutPerCall ==
    [][pc = "awaiting" =>
          /\ DeadlineExpires =>
                /\ call_elapsed' - call_elapsed = timeout_per_provider
                /\ (strategy # "LoadBalance" /\ cur + 1 < Count) =>
                      (pc' = "awaiting" /\ cur' = cur + 1)
          /\ ProviderReturnsOk =>
                /\ call_elapsed' - call_elapsed < timeout_per_provider
                /\ log'[Len(log')].result.ok
      ]_vars

\* the first provider used up the whole 50 ms, the second answered after 10 ms
C30_Witness ==
    /\ strategy \in {"Failover", "RaceFirst"}
    /\ Returned
    /\ Count = 2
    /\ timeout_per_provider = 50
    /\ log[1].result = Err(TimeoutError(50))
    /\ ret.ok
    /\ call_elapsed = 60

\* C31: a provider call abandoned at the deadline contributes failed_requests
\* +1 and nothing else to its entry (no success is counted for it and the
\* mean does not move), its place in the call's outcomes is a failure, a
\* value returned by that step is the Timeout error or, under Aggregate, is
\* built from the results merged before it, and a step that resolves no
\* invocation leaves the outcome fields of every entry as they are
C31_AbandonedDiscarded ==
    [][/\ DeadlineExpires =>
             /\ provider_stats'[NameAt(cur)].successful_requests =
                    provider_stats[NameAt(cur)].successful_requests
             /\ provider_stats'[NameAt(cur)].avg_response_time_ms =
                    provider_stats[NameAt(cur)].avg_response_time_ms
             /\ provider_stats'[NameAt(cur)].failed_requests =
                    provider_stats[NameAt(cur)].failed_requests + 1
             /\ ok_elapsed' = ok_elapsed
             /\ ~log'[Len(log')].result.ok
             /\ pc' = "idle" =>
                   ret' = CASE strategy \in {"Failover", "LoadBalance"} ->
                                 Err(TimeoutError(timeout_per_provider))
                            [] strategy = "RaceFirst" -> Err(AllProvidersInRaceFailed)
                            [] strategy = "Aggregate" ->
                                 AggregateFinish(merged_results, options.max_results)
       /\ pc = "idle" =>
             \A n \in DOMAIN provider_stats :
                 OutcomeFields(provider_stats'[n]) = OutcomeFields(provider_stats[n])
      ]_vars

\* the first provider was abandoned at the deadline, the second answered:
\* the first one's entry shows one request, one failure, no success
C31_Witness ==
    /\ strategy = "Aggregate"
    /\ Returned
    /\ Count = 2
    /\ providers[1] # providers[2]
    /\ calls = 1
    /\ log[1].result = Err(TimeoutError(timeout_per_provider))
    /\ ret.ok
    /\ provider_stats[NameAt(0)] =
          [total_requests |-> 1, successful_requests |-> 0, failed_requests |-> 1,
           avg_response_time_ms |-> [num |-> 0, den |-> 1]]

\* C32: no automatic retry: within one search call no registered provider
\* (registration index) is invoked more than once, so the call raises the
\* sum of all total_requests by at most the number of registered providers
C32_NoRetry ==
    /\ \A i \in 0..(MaxProviders - 1) : InvokedInCall(i) <= 1
    /\ SumSet([n \in DOMAIN provider_stats |->
                  provider_stats[n].total_requests - stats_before[n].total_requests],
              DOMAIN provider_stats) <= Count

\* Failover went through three failing providers once each
C32_Witness ==
    /\ strategy = "Failover"
    /\ Returned
    /\ Count = 3
    /\ AllFailed
    /\ \A i \in 0..2 : InvokedInCall(i) = 1
    /\ SumSet([n \in DOMAIN provider_stats |->
                  provider_stats[n].total_requests - stats_before[n].total_requests],
              DOMAIN provider_stats) = 3

\* registered providers that bear the name n
Bearers(n) == {i \in 0..(Count - 1) : NameAt(i) = n}

\* C33 (as amended): under Aggregate every search call invokes every
\* registered provider exactly once, in registration order, whatever the
\* earlier outcomes and even when max_results results are already collected;
\* each stats entry's total_requests grows per search by the number of
\* registered providers that bear its name (by 1 when the names are distinct)
C33_AggregateInvokesAll ==
    (strategy = "Aggregate" /\ Returned) =>
        /\ Len(log) = Count
        /\ \A j \in 1..Len(log) : log[j].index = j - 1
        /\ \A n \in DOMAIN provider_stats :
              provider_stats[n].total_requests =
                  stats_before[n].total_requests + Cardinality(Bearers(n))

\* C33 (as claimed): ... so each provider's total_requests grows by exactly 1
\* per search
C33_AggregateEachGrowsByOne ==
    (strategy = "Aggregate" /\ Returned) =>
        /\ Len(log) = Count
        /\ \A j \in 1..Len(log) : log[j].index = j - 1
        /\ \A i \in 0..(Count - 1) :
              provider_stats[NameAt(i)].total_requests =
                  stats_before[NameAt(i)].total_requests + 1

\* the first provider already gave max_results results; the second was
\* invoked all the same
C33_Witness ==
    /\ strategy = "Aggregate"
    /\ Returned
    /\ Count = 2
    /\ providers[1] # providers[2]
    /\ options.max_results = Some(2)
    /\ Succeeded(1)
    /\ Len(log[1].result.results) = 2
    /\ Len(log) = 2
    /\ log[2].index = 1
    /\ provider_stats[NameAt(1)].total_requests = stats_before[NameAt(1)].total_requests + 1

\* C34: no step of a search call, whether the call succeeds or fails, changes
\* the provider list, the strategy, the per-provider timeout or the keys of
\* the stats map, and the keys are exactly the names of the registered
\* providers
C34_ConfigurationFrame ==
    [][/\ providers' = providers
       /\ strategy' = strategy
       /\ timeout_per_provider' = timeout_per_provider
       /\ DOMAIN provider_stats' = DOMAIN provider_stats
       /\ DOMAIN provider_stats = Range(providers)
       /\ DOMAIN provider_stats' = Range(providers')
      ]_vars

\* after one call that succeeded and one that failed
C34_Witness ==
    /\ strategy = "LoadBalance"
    /\ Returned
    /\ calls = 2
    /\ Count = 2
    /\ ~ret.ok
    /\ provider_stats[NameAt(0)].successful_requests = 1
    /\ DOMAIN provider_stats = {<<1, 2>>, <<2>>}

\* C35: before the first search call every stats entry has all counters zero,
\* and no step ever lowers total_requests, successful_requests or
\* failed_requests
C35_CountersMonotone ==
    [][\A n \in DOMAIN provider_stats :
          /\ calls = 0 =>
                /\ provider_stats[n].total_requests = 0
                /\ provider_stats[n].successful_requests = 0
                /\ provider_stats[n].failed_requests = 0
          /\ provider_stats'[n].total_requests >= provider_stats[n].total_requests
          /\ provider_stats'[n].successful_requests >=
                 provider_stats[n].successful_requests
          /\ provider_stats'[n].failed_requests >= provider_stats[n].failed_requests
      ]_vars

\* four calls later the single provider's counters hold all four
C35_Witness ==
    /\ Returned
    /\ Count = 1
    /\ calls = 4
    /\ provider_stats[NameAt(0)].total_requests = 4
    /\ provider_stats[NameAt(0)].failed_requests = 2
    /\ provider_stats[NameAt(0)].successful_requests = 2
    /\ ret.ok

\* C36: under LoadBalance the rotation advances on every call whatever its
\* outcome: the call that follows a call to index i is made to index
\* (i + 1) mod P, also when the call to i failed or timed out, and the call
\* numbered j (from 0) of an orchestrator goes to index j mod P
C36_RotationAdvances ==
    [][(strategy = "LoadBalance" /\ Count > 0 /\ Search) =>
          /\ pc' = "awaiting"
          /\ cur' = calls % Count
          /\ calls > 0 => cur' = (log[1].index + 1) % Count
      ]_vars

\* the first call, to index 0, failed; the second went to index 1
C36_Witness ==
    /\ strategy = "LoadBalance"
    /\ Count = 3
    /\ calls = 2
    /\ pc = "awaiting"
    /\ cur = 1
    /\ provider_stats[NameAt(0)].failed_requests >= 1
    /\ SumSet([n \in DOMAIN provider_stats |-> provider_stats[n].successful_requests],
              DOMAIN provider_stats) = 0

\* C37: under Failover, Aggregate and Race the invocations made and the value
\* returned are those given by the provider list, the request and the
\* outcomes of the call, whatever the stats were when the call began; under
\* LoadBalance the provider invoked is the one the stats select
C37_StatsNotRead ==
    Returned =>
        /\ strategy # "LoadBalance" =>
              /\ \A j \in 1..Len(log) : log[j].index = j - 1
              /\ Len(log) = ExpectedLen
              /\ ret = ExpectedValue
        /\ (strategy = "LoadBalance" /\ Count > 0) =>
              log[1].index = LoadBalanceIndex(stats_before, Count)

\* a Race call made after two calls that left failures in the stats
C37_Witness ==
    /\ strategy = "RaceFirst"
    /\ Returned
    /\ Count = 1
    /\ calls = 3
    /\ stats_before[NameAt(0)].failed_requests = 2
    /\ ret.ok

\* C39: in every state each stats entry has total_requests -
\* (successful_requests + failed_requests) equal to 1 if it is the entry of
\* the provider whose call is in flight and to 0 otherwise
C39_InFlightEntry ==
    \A n \in DOMAIN provider_stats :
        provider_stats[n].total_requests
            - (provider_stats[n].successful_requests + provider_stats[n].failed_requests)
        = IF pc = "awaiting" /\ n = NameAt(cur) THEN 1 ELSE 0

\* the second provider's call is in flight after the first one failed
C39_Witness ==
    /\ strategy = "Failover"
    /\ pc = "awaiting"
    /\ cur = 1
    /\ providers[1] # providers[2]
    /\ provider_stats[NameAt(0)].total_requests = 1
    /\ provider_stats[NameAt(0)].failed_requests = 1
    /\ provider_stats[NameAt(1)].total_requests = 1
    /\ provider_stats[NameAt(1)].failed_requests = 0
    /\ provider_stats[NameAt(1)].successful_requests = 0

\* C38: the command line's `race` option gives the Aggregate strategy, so a
\* search started from the command line never runs RaceFirst (with `race`
\* every provider is invoked, also after a success, and the merged results
\* are returned); `failover`, `load-balance` and `aggregate` give the
\* strategy of the same name
C38_CliRaceIsAggregate ==
    /\ strategy # "RaceFirst"
    /\ cli_strategy = "failover" => strategy = "Failover"
    /\ cli_strategy = "load-balance" => strategy = "LoadBalance"
    /\ cli_strategy = "aggregate" => strategy = "Aggregate"
    /\ cli_strategy = "race" =>
          /\ strategy = "Aggregate"
          /\ Returned =>
                /\ Len(log) = Count
                /\ ret = AggregateFinish(Concatenated(Len(log)), options.max_results)

\* --strategy race: the second provider is queried after the first succeeded
\* and the results of both come back
C38_Witness ==
    /\ cli_strategy = "race"
    /\ Returned
    /\ Count = 2
    /\ options.max_results = Some(2)
    /\ Len(log) = 2
    /\ log[1].result = Ok(<<Item(Some(<<2>>), 1)>>)
    /\ log[2].result = Ok(<<Item(Some(<<2>>), 1)>>)
    /\ Len(ret.results) = 2

====
